---- MODULE Spec2Model ----
(***************************************************************************)
(* Model of the NT4 client session core (src/src/v4/client.rs).            *)
(*                                                                         *)
(* Tasks: the receive pump spawned by try_new_w_config, user tasks calling *)
(* the public API, and the one-shot retry tasks spawned by handle_message. *)
(* A step of a task is the code between two suspension points (awaits).    *)
(* The registries client_published_topics and subscriptions are guarded by *)
(* mutexes that are only ever held across non-blocking code or by on_open  *)
(* after it owns announced_topics, so waiting for them is not a separate   *)
(* step.  The socket mutex and the announced_topics mutex are held across  *)
(* awaits and are modelled explicitly.                                     *)
(***************************************************************************)
EXTENDS Integers, Sequences, FiniteSets, TLC

\* ---------------------------------------------------------------- bounds
\* Total number of environment events of a run: API calls, frames sent by
\* the server, and transport closures.
MaxEvents == 4
\* Total number of public API calls user tasks make.
MaxCalls == 2
\* Number of frames the server sends.
MaxRx == 3
\* Number of times the server closes a transport.
MaxCloses == 1
\* Environment events and received frames of a run in which time passes.
MaxTimeEvents == 3
MaxTimeRx == 2
\* Environment events and received frames of a run that fills a queue.
MaxQueueEvents == 5
MaxQueueRx == 4
\* Environment events and received frames of a run that ends with the
\* Client dropped.
MaxTeardownEvents == 3
MaxTeardownRx == 2
\* Frames received in a run that follows one time-sync reply to its end.
MaxResyncRx == 2
\* Frames received in a run of announces.
MaxAnnounceRx == 3
\* API calls of a run in which the id counters wrap.
MaxIdCalls == 3
\* Frames received in a run of malformed frames.
MaxFramesRx == 3
MaxFramesCalls == 1
\* Frames on one transport after which the pump's 5 s timer no longer fires.
MaxWire == 2
\* Capacity of a subscription's consumer queue (mpsc::channel(100) in the
\* code, scaled down so that a full queue is reachable).
ChannelCapacity == 2

\* ------------------------------------------------------ program constants
\* i32::MAX, the maximum of sub_counter.
I32_MAX == 2147483647
\* The maximum of topic_counter.  The code's counter is a u32 and wraps at
\* 4294967295; integers here end at 2^31 - 1, so the counter is given that
\* width: checked_add(1) fails at the maximum and the id wraps to 1.
U32_MAX == 2147483647

Users == {"u1", "u2"}
Pump == "pump"
Tasks == Users \cup {Pump}
Free == "free"

\* Topic names are character sequences so that prefix matching is computed.
NameA == <<"a">>
NameAB == <<"a", "b">>

\* Option<T>: None is the empty sequence, Some(x) a one-element sequence.
None == << >>
Some(x) == << x >>
is_some(o) == o # None

\* publish_topic arguments user tasks choose from: (name, type, properties).
PubChoices ==
    { [name |-> NameA, type |-> "int", properties |-> None],
      [name |-> NameAB, type |-> "double", properties |-> Some("persistent")] }

\* subscribe_w_options arguments: a topic set and the prefix option.
SubChoices ==
    { [topics |-> {NameA}, prefix |-> FALSE],
      [topics |-> {NameA}, prefix |-> TRUE] }

\* announce messages the server chooses from.
AnnounceChoices ==
    { [id |-> 1, name |-> NameA, type |-> "int", pubuid |-> None],
      [id |-> 2, name |-> NameAB, type |-> "double", pubuid |-> None] }

ServerIds == {1, 2}
\* type tags of the value frames the server sends
ValueTypes == {"double"}

\* Readings of the u32 clock and values of server_time_offset: both ends
\* of the range.
TimeValues == {0, 2, U32_MAX}
\* server timestamps of the time-sync replies the server sends
ServerStamps == {0, 2, U32_MAX}
\* data of a time-sync reply, as data.as_i64() gives it: not an integer,
\* or the client time the reply echoes
ClientStamps == {None, Some(0), Some(2), Some(-1)}
\* announce messages the server may send for the time topic's id
TimeAnnounceChoices ==
    { [id |-> -1, name |-> <<"T">>, type |-> "double", pubuid |-> None] }
\* Frames as they come off the transport.  A text frame parses as a JSON
\* array of NT messages or does not; a binary frame decodes as MsgPack or
\* does not, the decoded value is an array or is not, and the elements of
\* an array are what as_i64 / as_u64 make of them.
RejectedFrames ==
    { [kind |-> "text", json_ok |-> FALSE],
      [kind |-> "binary", msgpack_ok |-> FALSE],
      [kind |-> "binary", msgpack_ok |-> TRUE, array |-> FALSE],
      [kind |-> "binary", msgpack_ok |-> TRUE, array |-> TRUE,
       elems |-> << Some(1), Some(2), Some(1) >>],
      [kind |-> "binary", msgpack_ok |-> TRUE, array |-> TRUE,
       elems |-> << Some(-2), Some(2), Some(2), Some(0) >>],
      [kind |-> "binary", msgpack_ok |-> TRUE, array |-> TRUE,
       elems |-> << Some(1), Some(2), Some(99), Some(0) >>] }
\* a time-sync reply and a value frame that decode
AcceptedFrames ==
    { [kind |-> "binary", msgpack_ok |-> TRUE, array |-> TRUE,
       elems |-> << Some(-1), Some(2), Some(2), Some(0) >>],
      [kind |-> "binary", msgpack_ok |-> TRUE, array |-> TRUE,
       elems |-> << Some(1), Some(2), Some(1), Some(0) >>] }

\* announce messages of a server that re-announces ids, with and without
\* a pubuid, under another name and type
AnnounceInputs ==
    AnnounceChoices \cup TimeAnnounceChoices \cup
    { [id |-> 1, name |-> NameAB, type |-> "double", pubuid |-> Some(7)],
      [id |-> -1, name |-> NameA, type |-> "double", pubuid |-> Some(5)] }

VARIABLES
    pc,                      \* position of every task
    call,                    \* the API call a user task is in / last made
    result,                  \* how the last API call of a user task ended
    rcret,                   \* where a task's reconnect returns to
    socketLock,              \* holder of InnerClient.socket
    announcedLock,           \* holder of InnerClient.announced_topics
    socket,                  \* the transport InnerClient.socket guards
    announced_topics,
    client_published_topics,
    subscriptions,
    sub_counter,
    topic_counter,
    userSubs,                \* the Subscription objects handed to users
    retries,                 \* spawned value-before-announce retry tasks
    callbacks,               \* number of invocations of each Config callback
                             \* and the Topic on_announce was last given
    rx,                      \* frames received from the server so far
    closes,                  \* transports closed by the server so far
    calls,                   \* API calls made so far
    limits,                  \* the bounds on the events of the run
    time,                    \* clock reading, server_time_offset, build
    dropped                  \* frames handle_message returned from unhandled

vars == << pc, call, result, rcret, socketLock, announcedLock,
           socket, announced_topics, client_published_topics, subscriptions,
           sub_counter, topic_counter, userSubs, retries, callbacks, rx,
           closes, calls, limits, time, dropped >>

\* ------------------------------------------------------------- helpers
Restrict(f, S) == [x \in S |-> f[x]]
Put(f, k, v) == [x \in DOMAIN f \cup {k} |-> IF x = k THEN v ELSE f[x]]

\* str::starts_with
starts_with(s, p) == Len(p) <= Len(s) /\ SubSeq(s, 1, Len(p)) = p

NoCall == [op |-> "none"]

\* A set as a sequence in some fixed order (HashMap iteration order is
\* unspecified; the frames built from it are compared order-independently).
RECURSIVE SetToSeq(_)
SetToSeq(S) ==
    IF S = {} THEN << >>
    ELSE LET x == CHOOSE y \in S : TRUE IN << x >> \o SetToSeq(S \ {x})

\* ------------------------------------------------------------ messages
PublishMsg(name, pubuid, type, properties) ==
    [method |-> "publish", name |-> name, pubuid |-> pubuid, type |-> type,
     properties |-> properties]
SetPropertiesMsg(name, update) ==
    [method |-> "setproperties", name |-> name, update |-> update]
UnpublishMsg(pubuid) == [method |-> "unpublish", pubuid |-> pubuid]
SubscribeMsg(subuid, topics, options) ==
    [method |-> "subscribe", subuid |-> subuid, topics |-> topics,
     options |-> options]
UnsubscribeMsg(subuid) == [method |-> "unsubscribe", subuid |-> subuid]

\* Message::Text carrying a JSON array, Message::Binary carrying the
\* MsgPack 4-array [id, timestamp, type, value].
TextFrame(msgs) == [kind |-> "text", msgs |-> msgs]
BinaryFrame(id, timestamp, type, value) ==
    [kind |-> "binary", id |-> id, timestamp |-> timestamp, type |-> type,
     value |-> value]

PublishedTopic(name, pubuid, type, properties) ==
    [name |-> name, pubuid |-> pubuid, type |-> type,
     properties |-> properties]

MessageData(topic_name, timestamp, type, data) ==
    [topic_name |-> topic_name, timestamp |-> timestamp, type |-> type,
     data |-> data]

\* ------------------------------------------------------------ counters
\* current_id.checked_add(1).unwrap_or(1)
new_topic_id_WrapsToZero(current_id) ==
    IF current_id = U32_MAX THEN 0 ELSE current_id + 1

new_topic_id(current_id) ==
    IF current_id = U32_MAX THEN 1 ELSE current_id + 1

new_sub_id(current_id) ==
    IF current_id = I32_MAX THEN 1 ELSE current_id + 1

\* ----------------------------------------------------------------- time
\* u32 arithmetic.  checked_sub is None when the difference is negative.
checked_sub(a, b) == IF a >= b THEN Some(a - b) ELSE None

\* a + b modulo the width.
wrapping_add(a, b) ==
    IF a > U32_MAX - b THEN (a - (U32_MAX - b)) - 1 ELSE a + b

\* `n as u32` for an i64 n: the value modulo the width.
as_u32(n) == IF n < 0 THEN (n + U32_MAX) + 1 ELSE n

\* client_time(): the microseconds since start_time, truncated to u32.
\* time.client_time is what the clock reads now.
client_time(t) == t.client_time

\* server_time(): client_time() + *server_time_offset.  The addition
\* panics on overflow when the build checks overflow and wraps when it
\* does not; None is the panic.
server_time(t) ==
    IF t.client_time > U32_MAX - t.server_time_offset
    THEN IF t.overflow_checks
         THEN None
         ELSE Some(wrapping_add(t.client_time, t.server_time_offset))
    ELSE Some(t.client_time + t.server_time_offset)

\* handle_new_timestamp: ok is FALSE when it returns None ("the math
\* failed"); offset is the value it stores, if it stores one.
handle_new_timestamp(t, server_timestamp, client_timestamp) ==
    IF client_timestamp = None
    THEN [ok |-> TRUE, offset |-> None]
    ELSE LET receive_time == client_time(t)
             round_trip_time ==
                 checked_sub(receive_time, as_u32(client_timestamp[1]))
             server_time_at_receive ==
                 IF round_trip_time = None THEN None
                 ELSE checked_sub(server_timestamp, round_trip_time[1] \div 2)
             offset ==
                 IF server_time_at_receive = None THEN None
                 ELSE checked_sub(server_time_at_receive[1], receive_time)
         IN  [ok |-> offset # None, offset |-> offset]

\* The time fields after handle_new_timestamp(server_timestamp,
\* client_timestamp) ran.
StoreOffset(t, server_timestamp, client_timestamp) ==
    LET h == handle_new_timestamp(t, server_timestamp, client_timestamp)
    IN  IF h.offset # None
        THEN [t EXCEPT !.server_time_offset = h.offset[1]]
        ELSE t

\* start_time = Instant::now() and server_time_offset = 0, as constructed.
NewTime(overflow_checks) ==
    [client_time |-> 0, server_time_offset |-> 0, pending |-> None,
     overflow_checks |-> overflow_checks]

\* ------------------------------------------------------- subscriptions
\* InternalSub {data: Weak<SubscriptionData>, sender}: both refer to the
\* Subscription object objs[sub.data] the user holds.
is_valid(sub, objs) == objs[sub.data].alive

matches_topic(sub, topic, objs) ==
    LET data == objs[sub.data] IN
    IF data.prefix
    THEN \E pat \in data.topics : starts_with(topic.name, pat)
    ELSE topic.name \in data.topics

\* mpsc::Sender::try_send(..).is_ok()
try_send_ok_Unbounded(sub, objs) == TRUE

try_send_ok(sub, objs) ==
    objs[sub.data].alive /\ Len(objs[sub.data].queue) < ChannelCapacity

\* RetainSub with the validity test's outcome swapped: a dropped
\* Subscription's entry is kept.
RetainSub_KeepsDropped(sub, topic, objs) ==
    IF ~is_valid(sub, objs) THEN TRUE
    ELSE IF matches_topic(sub, topic, objs) THEN try_send_ok(sub, objs)
    ELSE FALSE

\* The closure of subscriptions.retain in send_value_to_subscriber: its
\* value is whether the entry is kept; it enqueues exactly when it is kept.
RetainSub(sub, topic, objs) ==
    IF ~is_valid(sub, objs) THEN FALSE
    ELSE IF matches_topic(sub, topic, objs) THEN try_send_ok(sub, objs)
    ELSE FALSE

EnqueuesTo(sub, topic, objs) ==
    is_valid(sub, objs) /\ matches_topic(sub, topic, objs)
        /\ try_send_ok(sub, objs)

\* send_value_to_subscriber: the registry and the consumer queues after
\* one routing pass.
RoutedSubscriptions(subs, topic, objs) ==
    Restrict(subs, { k \in DOMAIN subs : RetainSub(subs[k], topic, objs) })

RoutedQueues(subs, topic, timestamp, type, data, objs) ==
    [ h \in DOMAIN objs |->
        IF \E k \in DOMAIN subs :
               subs[k].data = h /\ EnqueuesTo(subs[k], topic, objs)
        THEN [objs[h] EXCEPT !.queue =
                 Append(@, MessageData(topic.name, timestamp, type, data))]
        ELSE objs[h] ]

\* ------------------------------------------------------------- on_open
\* Vec::with_capacity(n) has length 0; messages[i] = .. panics when i is
\* not below the length.
VecWithCapacity(n) == << >>
IndexAssignPanics(vec, i) == i >= Len(vec)

OnOpenPanics(pubs, subs) ==
    LET messages == VecWithCapacity(Cardinality(DOMAIN pubs)
                                      + Cardinality(DOMAIN subs))
    IN \E i \in 0..(Cardinality(DOMAIN pubs) - 1) :
           IndexAssignPanics(messages, i)

\* subscriptions.retain(|_, sub| !sub.is_valid())
OnOpenRetained(subs, objs) ==
    Restrict(subs, { k \in DOMAIN subs : ~is_valid(subs[k], objs) })

\* messages.extend(subscriptions.values().filter_map(upgrade ..))
OnOpenSubscribeMsgs(subs, objs) ==
    SetToSeq({ SubscribeMsg(objs[subs[k].data].subuid,
                            objs[subs[k].data].topics,
                            objs[subs[k].data].prefix) :
               k \in { j \in DOMAIN subs : objs[subs[j].data].alive } })

\* The synthetic time topic on_open inserts.
TimeTopic ==
    [id |-> -1, name |-> <<"T">>, pubuid |-> Some(-1), type |-> "int",
     properties |-> None]

\* CallFrame with publish_topic's two messages pushed in the other order.
CallFrame_SetPropertiesFirst(c) ==
    CASE c.op = "publish_topic" ->
           TextFrame(IF is_some(c.properties)
                     THEN << SetPropertiesMsg(c.name, c.properties[1]),
                             PublishMsg(c.name, c.pubuid, c.type,
                                        c.properties) >>
                     ELSE << PublishMsg(c.name, c.pubuid, c.type,
                                        c.properties) >>)
      [] c.op = "unpublish" -> TextFrame(<< UnpublishMsg(c.pubuid) >>)
      [] c.op = "subscribe" ->
           TextFrame(<< SubscribeMsg(c.subuid, c.topics, c.prefix) >>)
      [] c.op = "unsubscribe" -> TextFrame(<< UnsubscribeMsg(c.subuid) >>)
      [] c.op = "publish_value" ->
           BinaryFrame(c.pubuid, c.timestamp[1], c.type, 0)

\* ---------------------------------------------------------------- state
\* The frame send_message of task t is writing: a user call's serialized
\* message, or the pump's time-sync ping built by update_time.
CallFrame(c) ==
    CASE c.op = "publish_topic" ->
           TextFrame(IF is_some(c.properties)
                     THEN << PublishMsg(c.name, c.pubuid, c.type, c.properties),
                             SetPropertiesMsg(c.name, c.properties[1]) >>
                     ELSE << PublishMsg(c.name, c.pubuid, c.type,
                                        c.properties) >>)
      [] c.op = "unpublish" -> TextFrame(<< UnpublishMsg(c.pubuid) >>)
      [] c.op = "subscribe" ->
           TextFrame(<< SubscribeMsg(c.subuid, c.topics, c.prefix) >>)
      [] c.op = "unsubscribe" -> TextFrame(<< UnsubscribeMsg(c.subuid) >>)
      [] c.op = "publish_value" ->
           BinaryFrame(c.pubuid, c.timestamp[1], c.type, 0)

PingFrame == BinaryFrame(-1, 0, TimeTopic.type, 0)

FrameOf(t) == IF t = Pump THEN PingFrame ELSE CallFrame(call[t])

\* Where update_time returns to: the pump loop, or the time-sync branch of
\* handle_message when it called update_time after a failed computation.
AfterUpdateTime == IF time.pending # None THEN "ts_retry" ELSE "lock"

\* Where the caller of send_message continues when it returns Ok.
AfterSend(t) ==
    IF t = Pump THEN "ut_done"
    ELSE CASE call[t].op = "publish_topic" -> "pub_insert"
           [] call[t].op = "subscribe" -> "sub_insert"
           [] call[t].op = "unsubscribe" -> "unsub_remove"
           [] OTHER -> "return_ok"

\* The state try_new_w_config leaves: connected, on_open has run on empty
\* registries, the pump is in its first iteration (the timer is due).
Constructed ==
    /\ pc = [t \in Tasks |-> IF t = Pump THEN "ut_lock" ELSE "idle"]
    /\ call = [t \in Users |-> NoCall]
    /\ result = [t \in Users |-> "none"]
    /\ rcret = [t \in Tasks |-> "send_write"]
    /\ socketLock = Free
    /\ announcedLock = Free
    /\ socket = [open |-> TRUE, wire |-> << TextFrame(<< >>) >>]
    /\ announced_topics = [i \in {-1} |-> TimeTopic]
    /\ client_published_topics = << >>
    /\ subscriptions = << >>
    /\ sub_counter = 0
    /\ topic_counter = 0
    /\ userSubs = << >>
    /\ retries = {}
    /\ callbacks = [on_announce |-> 0, on_un_announce |-> 0,
                    on_disconnect |-> 0, on_reconnect |-> 0,
                    announced |-> None]
    /\ rx = 0
    /\ closes = 0
    /\ calls = 0
    /\ dropped = 0

\* The environment may produce one more event of the given kind.
MayCallApi == calls < limits.calls /\ calls + rx + closes < limits.events
MayReceive == rx < limits.rx /\ calls + rx + closes < limits.events
MayClose == closes < limits.closes /\ calls + rx + closes < limits.events

Init ==
    /\ Constructed
    /\ time = NewTime(TRUE)
    /\ limits = [calls |-> MaxCalls, rx |-> MaxRx, closes |-> MaxCloses,
                 events |-> MaxEvents]

userVars == << call, result, calls >>
lockVars == << socketLock, announcedLock >>
registryVars == << announced_topics, client_published_topics, subscriptions,
                   userSubs, retries >>
counterVars == << sub_counter, topic_counter >>
envVars == << rx, closes, limits, time, dropped >>

\* The Subscription object is dropped: its Arc and its receiver die.
Dropped(obj) == [obj EXCEPT !.alive = FALSE, !.held = FALSE, !.queue = << >>]

\* unsubscribe(sub) owns the Subscription it was given: when the call ends
\* early (an Err return, a panic) the Subscription is dropped.
DropMoved(t, objs) ==
    IF t \in Users /\ call[t].op = "unsubscribe"
    THEN [objs EXCEPT ![call[t].h] = Dropped(@)]
    ELSE objs

\* ------------------------------------------------------- send_message
\* let mut socket = self.socket.lock().await
SendLock(t) ==
    /\ pc[t] = "send_lock"
    /\ socketLock = Free
    /\ socketLock' = t
    /\ pc' = [pc EXCEPT ![t] = "send_write"]
    /\ rcret' = [rcret EXCEPT ![t] = "send_write"]
    /\ UNCHANGED << userVars, announcedLock, socket, registryVars,
                    counterVars, callbacks, envVars >>

\* socket.send(message) returned Ok: the frame is on the transport, the
\* guard is dropped and the caller continues.
SendWriteOk(t) ==
    /\ pc[t] = "send_write"
    /\ socket.open
    /\ socket' = [socket EXCEPT !.wire = Append(@, FrameOf(t))]
    /\ socketLock' = Free
    /\ IF AfterSend(t) = "return_ok"
       THEN /\ pc' = [pc EXCEPT ![t] = "idle"]
            /\ result' = [result EXCEPT ![t] = "Ok"]
       ELSE /\ pc' = [pc EXCEPT ![t] = AfterSend(t)]
            /\ UNCHANGED result
    /\ UNCHANGED << call, calls, rcret, announcedLock, registryVars,
                    counterVars, callbacks, envVars >>

\* socket.send(message) failed with an error other than AlreadyClosed or
\* ConnectionClosed: the error is returned (update_time discards it).
SendWriteErr(t) ==
    /\ pc[t] = "send_write"
    /\ socket.open
    /\ socketLock' = Free
    /\ IF t = Pump
       THEN /\ pc' = [pc EXCEPT ![t] = "ut_done"]
            /\ UNCHANGED result
       ELSE /\ pc' = [pc EXCEPT ![t] = "idle"]
            /\ result' = [result EXCEPT ![t] = "Err"]
    /\ userSubs' = DropMoved(t, userSubs)
    /\ UNCHANGED << call, calls, rcret, announcedLock, socket,
                    announced_topics, client_published_topics, subscriptions,
                    retries, counterVars, callbacks, envVars >>

\* socket.send(message) failed with AlreadyClosed / ConnectionClosed.
SendWriteClosed(t) ==
    /\ pc[t] = "send_write"
    /\ ~socket.open
    /\ pc' = [pc EXCEPT ![t] = "rc_begin"]
    /\ UNCHANGED << userVars, rcret, lockVars, socket, registryVars,
                    counterVars, callbacks, envVars >>

\* ----------------------------------------------------------- reconnect
\* (self.config.on_disconnect)()
ReconnectBegin(t) ==
    /\ pc[t] = "rc_begin"
    /\ callbacks' = [callbacks EXCEPT !.on_disconnect = @ + 1]
    /\ pc' = [pc EXCEPT ![t] = "rc_sleep"]
    /\ UNCHANGED << userVars, rcret, lockVars, socket, registryVars,
                    counterVars, envVars >>

\* tokio::time::sleep(connect_timeout)
ReconnectSleep(t) ==
    /\ pc[t] = "rc_sleep"
    /\ pc' = [pc EXCEPT ![t] = "rc_connect"]
    /\ UNCHANGED << userVars, rcret, lockVars, socket, registryVars,
                    counterVars, callbacks, envVars >>

\* timeout(connect_async(request)) failed or timed out: loop.
ConnectFail(t) ==
    /\ pc[t] = "rc_connect"
    /\ pc' = [pc EXCEPT ![t] = "rc_sleep"]
    /\ UNCHANGED << userVars, rcret, lockVars, socket, registryVars,
                    counterVars, callbacks, envVars >>

\* *socket = new_socket
ConnectOk(t) ==
    /\ pc[t] = "rc_connect"
    /\ socket' = [open |-> TRUE, wire |-> << >>]
    /\ pc' = [pc EXCEPT ![t] = "rc_open"]
    /\ UNCHANGED << userVars, rcret, lockVars, registryVars, counterVars,
                    callbacks, envVars >>

\* on_open once it owns announced_topics; the panic of the index
\* assignment unwinds the task and drops every guard it holds.
\* socket.send(..).await.ok() discards a failure of the write.
OnOpen(t) ==
    /\ pc[t] = "rc_open"
    /\ announcedLock = Free
    /\ announced_topics' = Put(announced_topics, -1, TimeTopic)
    /\ IF OnOpenPanics(client_published_topics, subscriptions)
       THEN /\ pc' = [pc EXCEPT ![t] = "panicked"]
            /\ socketLock' = Free
            /\ userSubs' = DropMoved(t, userSubs)
            /\ UNCHANGED << subscriptions, socket >>
       ELSE /\ subscriptions' = OnOpenRetained(subscriptions, userSubs)
            /\ \E written \in { w \in BOOLEAN : w => socket.open } :
                 socket' =
                   IF written
                   THEN [socket EXCEPT !.wire = Append(@,
                           TextFrame(OnOpenSubscribeMsgs(subscriptions',
                                                         userSubs)))]
                   ELSE socket
            /\ pc' = [pc EXCEPT ![t] = "rc_cb"]
            /\ UNCHANGED << socketLock, userSubs >>
    /\ UNCHANGED << userVars, rcret, announcedLock, client_published_topics,
                    retries, counterVars, callbacks, envVars >>

\* (self.config.on_reconnect)(); reconnect returns to its caller.
ReconnectDone(t) ==
    /\ pc[t] = "rc_cb"
    /\ callbacks' = [callbacks EXCEPT !.on_reconnect = @ + 1]
    /\ pc' = [pc EXCEPT ![t] = rcret[t]]
    /\ UNCHANGED << userVars, rcret, lockVars, socket, registryVars,
                    counterVars, envVars >>

\* ------------------------------------------------------- receive pump
\* update_time: announced_topics.lock().await, then the ping is sent with
\* the guard still held.
UpdateTimeLock ==
    /\ pc[Pump] = "ut_lock"
    /\ announcedLock = Free
    /\ IF -1 \in DOMAIN announced_topics
       THEN /\ announcedLock' = Pump
            /\ pc' = [pc EXCEPT ![Pump] = "send_lock"]
       ELSE /\ pc' = [pc EXCEPT ![Pump] = AfterUpdateTime]
            /\ UNCHANGED announcedLock
    /\ UNCHANGED << userVars, rcret, socketLock, socket, registryVars,
                    counterVars, callbacks, envVars >>

\* update_time returns: the announced_topics guard is dropped.
UpdateTimeDone ==
    /\ pc[Pump] = "ut_done"
    /\ announcedLock' = Free
    /\ pc' = [pc EXCEPT ![Pump] = AfterUpdateTime]
    /\ UNCHANGED << userVars, rcret, socketLock, socket, registryVars,
                    counterVars, callbacks, envVars >>

\* let mut socket = handle_task_client.socket.lock().await
PumpLock ==
    /\ pc[Pump] = "lock"
    /\ socketLock = Free
    /\ socketLock' = Pump
    /\ pc' = [pc EXCEPT ![Pump] = "drain"]
    /\ rcret' = [rcret EXCEPT ![Pump] = "drain"]
    /\ UNCHANGED << userVars, announcedLock, socket, registryVars,
                    counterVars, callbacks, envVars >>

\* RecvAnnounce with an insert that replaces an existing entry.
RecvAnnounce_Replaces(a) ==
    /\ pc[Pump] = "drain"
    /\ socket.open
    /\ MayReceive
    /\ announcedLock = Free
    /\ rx' = rx + 1
    /\ announced_topics' =
         Put(announced_topics, a.id,
             [id |-> a.id, name |-> a.name, pubuid |-> a.pubuid,
              type |-> a.type, properties |-> Some("props")])
    /\ callbacks' = [callbacks EXCEPT
                       !.on_announce = @ + 1,
                       !.announced = Some(announced_topics'[a.id])]
    /\ UNCHANGED << pc, userVars, rcret, lockVars, socket,
                    client_published_topics, subscriptions, userSubs,
                    retries, counterVars, closes, limits, dropped, time >>

\* handle_message, Text frame with one announce.
RecvAnnounce(a) ==
    /\ pc[Pump] = "drain"
    /\ socket.open
    /\ MayReceive
    /\ announcedLock = Free
    /\ rx' = rx + 1
    /\ announced_topics' =
         IF a.id \in DOMAIN announced_topics
         THEN IF is_some(a.pubuid)
              THEN [announced_topics EXCEPT ![a.id].pubuid = a.pubuid]
              ELSE announced_topics
         ELSE Put(announced_topics, a.id,
                  [id |-> a.id, name |-> a.name, pubuid |-> a.pubuid,
                   type |-> a.type, properties |-> Some("props")])
    /\ callbacks' = [callbacks EXCEPT
                       !.on_announce = @ + 1,
                       !.announced = Some(announced_topics'[a.id])]
    /\ UNCHANGED << pc, userVars, rcret, lockVars, socket,
                    client_published_topics, subscriptions, userSubs,
                    retries, counterVars, closes, limits, dropped, time >>

\* handle_message, Text frame with one unannounce.
RecvUnAnnounce(id) ==
    /\ pc[Pump] = "drain"
    /\ socket.open
    /\ MayReceive
    /\ announcedLock = Free
    /\ rx' = rx + 1
    /\ announced_topics' =
         Restrict(announced_topics, DOMAIN announced_topics \ {id})
    /\ callbacks' = [callbacks EXCEPT !.on_un_announce = @ + 1]
    /\ UNCHANGED << pc, userVars, rcret, lockVars, socket,
                    client_published_topics, subscriptions, userSubs,
                    retries, counterVars, closes, limits, dropped, time >>

\* handle_message, Binary frame [id, timestamp, type, data] with id >= 0
\* and a valid type: routed when the topic is announced, else a retry task
\* is spawned.  The server stamps its values with their arrival number.
RecvValue(id, type) ==
    /\ pc[Pump] = "drain"
    /\ socket.open
    /\ MayReceive
    /\ announcedLock = Free
    /\ rx' = rx + 1
    /\ IF id \in DOMAIN announced_topics
       THEN /\ subscriptions' =
                 RoutedSubscriptions(subscriptions, announced_topics[id],
                                     userSubs)
            /\ userSubs' =
                 RoutedQueues(subscriptions, announced_topics[id], rx + 1,
                              type, rx + 1, userSubs)
            /\ UNCHANGED retries
       ELSE /\ retries' = retries \cup
                 { [id |-> id, timestamp |-> rx + 1, type |-> type,
                    data |-> rx + 1] }
            /\ UNCHANGED << subscriptions, userSubs >>
    /\ UNCHANGED << pc, userVars, rcret, lockVars, socket, announced_topics,
                    client_published_topics, counterVars, callbacks, closes, limits, dropped, time >>

\* poll!(socket.next()) is Ready(Some(Err(AlreadyClosed | ConnectionClosed)))
RecvClosed ==
    /\ pc[Pump] = "drain"
    /\ ~socket.open
    /\ pc' = [pc EXCEPT ![Pump] = "rc_begin"]
    /\ UNCHANGED << userVars, rcret, lockVars, socket, registryVars,
                    counterVars, callbacks, envVars >>

\* No frame is ready: leave the drain loop and sleep 7 ms, the socket
\* guard still in scope.
RecvPending ==
    /\ pc[Pump] = "drain"
    /\ socket.open
    /\ pc' = [pc EXCEPT ![Pump] = "sleep"]
    /\ UNCHANGED << userVars, rcret, lockVars, socket, registryVars,
                    counterVars, callbacks, envVars >>

\* Arc::strong_count(&handle_task_client) <= 1: the Client has been
\* dropped and no retry task holds a clone of the Arc.
LastReferenceHolder ==
    /\ \A u \in Users : pc[u] = "dropped"
    /\ retries = {}

\* The sleep ends and the socket guard goes out of scope; the next
\* iteration stops when the pump is the last reference holder and else
\* decides whether TIMESTAMP_INTERVAL has elapsed.
PumpWake ==
    /\ pc[Pump] = "sleep"
    /\ socketLock' = Free
    /\ IF LastReferenceHolder
       THEN pc' = [pc EXCEPT ![Pump] = "exited"]
       ELSE \E due \in { d \in BOOLEAN : d => Len(socket.wire) < MaxWire } :
              pc' = [pc EXCEPT ![Pump] = IF due THEN "ut_lock" ELSE "lock"]
    /\ UNCHANGED << userVars, rcret, announcedLock, socket, registryVars,
                    counterVars, callbacks, envVars >>

\* RetryFire with a task that stays scheduled after it has run.
RetryFire_Requeues(r) ==
    /\ r \in retries
    /\ announcedLock = Free
    /\ retries' = retries
    /\ IF r.id \in DOMAIN announced_topics
       THEN /\ subscriptions' =
                 RoutedSubscriptions(subscriptions, announced_topics[r.id],
                                     userSubs)
            /\ userSubs' =
                 RoutedQueues(subscriptions, announced_topics[r.id],
                              r.timestamp, r.type, r.data, userSubs)
       ELSE UNCHANGED << subscriptions, userSubs >>
    /\ UNCHANGED << pc, userVars, rcret, lockVars, socket, announced_topics,
                    client_published_topics, counterVars, callbacks, envVars >>

\* The task spawned for a value that arrived before its announce: after
\* 7 ms it looks the topic up again and routes or drops the value.
RetryFire(r) ==
    /\ r \in retries
    /\ announcedLock = Free
    /\ retries' = retries \ {r}
    /\ IF r.id \in DOMAIN announced_topics
       THEN /\ subscriptions' =
                 RoutedSubscriptions(subscriptions, announced_topics[r.id],
                                     userSubs)
            /\ userSubs' =
                 RoutedQueues(subscriptions, announced_topics[r.id],
                              r.timestamp, r.type, r.data, userSubs)
       ELSE UNCHANGED << subscriptions, userSubs >>
    /\ UNCHANGED << pc, userVars, rcret, lockVars, socket, announced_topics,
                    client_published_topics, counterVars, callbacks, envVars >>

\* handle_message, Binary frame [-1, server_timestamp, type, data]: the
\* reply to a time-sync ping.  When the computation fails start_time is set
\* to now and update_time is called, the socket guard of the pump loop
\* still held.
RecvTimeSync(server_timestamp, client_timestamp) ==
    /\ pc[Pump] = "drain"
    /\ socket.open
    /\ MayReceive
    /\ rx' = rx + 1
    /\ IF handle_new_timestamp(time, server_timestamp, client_timestamp).ok
       THEN /\ time' = StoreOffset(time, server_timestamp, client_timestamp)
            /\ UNCHANGED pc
       ELSE /\ time' = [time EXCEPT
                          !.client_time = 0,
                          !.pending = Some([server_timestamp |->
                                              server_timestamp,
                                            client_timestamp |->
                                              client_timestamp])]
            /\ pc' = [pc EXCEPT ![Pump] = "ut_lock"]
    /\ UNCHANGED << userVars, rcret, lockVars, socket, registryVars,
                    counterVars, callbacks, closes, limits, dropped >>

\* update_time has returned: handle_new_timestamp is called once more with
\* the same reply and its result is discarded.
TimeSyncRetry ==
    /\ pc[Pump] = "ts_retry"
    /\ time' = [StoreOffset(time, time.pending[1].server_timestamp,
                            time.pending[1].client_timestamp)
                  EXCEPT !.pending = None]
    /\ pc' = [pc EXCEPT ![Pump] = "drain"]
    /\ UNCHANGED << userVars, rcret, lockVars, socket, registryVars,
                    counterVars, callbacks, rx, closes, limits, dropped >>

\* Time passes until the clock reads v.
Tick(v) ==
    /\ v # time.client_time
    /\ time' = [time EXCEPT !.client_time = v]
    /\ UNCHANGED << pc, userVars, rcret, lockVars, socket, registryVars,
                    counterVars, callbacks, rx, closes, limits, dropped >>

\* The last external Client handle is dropped; no API call is in progress.
DropClient ==
    /\ \A u \in Users : pc[u] \in {"idle", "panicked"}
    /\ pc' = [t \in Tasks |-> IF t \in Users THEN "dropped" ELSE pc[t]]
    /\ UNCHANGED << userVars, rcret, lockVars, socket, registryVars,
                    counterVars, callbacks, envVars >>

\* Type::from_num: the Type of a type tag, None for a tag that is none.
from_num(type_idx) ==
    CASE type_idx = 0 -> Some("boolean")
      [] type_idx = 1 -> Some("double")
      [] type_idx = 2 -> Some("int")
      [] type_idx = 3 -> Some("float")
      [] type_idx = 4 -> Some("string")
      [] type_idx = 5 -> Some("raw")
      [] type_idx \in 16..20 -> Some("array")
      [] OTHER -> None

\* Classify with the test for id == -1 left out: every negative id is
\* taken for the time channel.
Classify_AnyNegativeId(f) ==
    IF f.kind = "text"
    THEN IF f.json_ok THEN "messages" ELSE "dropped"
    ELSE IF ~f.msgpack_ok THEN "dropped"
    ELSE IF ~f.array THEN "dropped"
    ELSE IF Len(f.elems) # 4 THEN "dropped"
    ELSE IF f.elems[1] = None \/ f.elems[2] = None THEN "dropped"
    ELSE IF f.elems[1][1] >= 0
         THEN IF f.elems[3] = None THEN "dropped"
              ELSE IF from_num(f.elems[3][1]) = None THEN "dropped"
              ELSE "value"
    ELSE "timesync"

\* The branch of handle_message a frame takes: the frame is dropped
\* (logged at most), or it is a list of messages, a value or a time-sync
\* reply.
Classify(f) ==
    IF f.kind = "text"
    THEN IF f.json_ok THEN "messages" ELSE "dropped"
    ELSE IF ~f.msgpack_ok THEN "dropped"
    ELSE IF ~f.array THEN "dropped"
    ELSE IF Len(f.elems) # 4 THEN "dropped"
    ELSE IF f.elems[1] = None \/ f.elems[2] = None THEN "dropped"
    ELSE IF f.elems[1][1] >= 0
         THEN IF f.elems[3] = None THEN "dropped"
              ELSE IF from_num(f.elems[3][1]) = None THEN "dropped"
              ELSE "value"
    ELSE IF f.elems[1][1] = -1 THEN "timesync"
    ELSE "dropped"

\* handle_message for a binary frame, or a text frame that does not parse:
\* decode, then the branch the frame takes.  A dropped frame has no effect
\* and the drain loop polls again.
RecvFrame(f) ==
    \/ /\ Classify(f) = "dropped"
       /\ pc[Pump] = "drain"
       /\ socket.open
       /\ MayReceive
       /\ rx' = rx + 1
       /\ dropped' = dropped + 1
       /\ UNCHANGED << pc, userVars, rcret, lockVars, socket, registryVars,
                       counterVars, callbacks, closes, limits, time >>
    \/ /\ Classify(f) = "timesync"
       /\ RecvTimeSync(f.elems[2][1], f.elems[4])
    \/ /\ Classify(f) = "value"
       /\ RecvValue(f.elems[1][1], from_num(f.elems[3][1])[1])

\* The server (or the network) closes the current transport.
ServerClose ==
    /\ socket.open
    /\ MayClose
    /\ closes' = closes + 1
    /\ socket' = [socket EXCEPT !.open = FALSE]
    /\ UNCHANGED << pc, userVars, rcret, lockVars, registryVars, counterVars,
                    callbacks, rx, limits, dropped, time >>

\* ------------------------------------------------------------ user API
Range(f) == { f[x] : x \in DOMAIN f }

\* User tasks are interchangeable: a call is given to "u2" only while "u1"
\* is inside a call (or has panicked).
MayCall(t) ==
    /\ pc[t] = "idle"
    /\ MayCallApi
    /\ t = "u1" \/ pc["u1"] # "idle"

\* CallPublishTopic with the insert into client_published_topics moved
\* before the send.
CallPublishTopic_InsertsFirst(t, c, encoded) ==
    /\ MayCall(t)
    /\ calls' = calls + 1
    /\ topic_counter' = new_topic_id(topic_counter)
    /\ call' = [call EXCEPT ![t] =
                  [op |-> "publish_topic", pubuid |-> topic_counter',
                   name |-> c.name, type |-> c.type,
                   properties |-> c.properties]]
    /\ client_published_topics' =
         Put(client_published_topics, topic_counter',
             PublishedTopic(c.name, topic_counter', c.type, c.properties))
    /\ IF encoded
       THEN /\ pc' = [pc EXCEPT ![t] = "send_lock"]
            /\ result' = [result EXCEPT ![t] = "none"]
       ELSE /\ pc' = [pc EXCEPT ![t] = "idle"]
            /\ result' = [result EXCEPT ![t] = "Err"]
    /\ UNCHANGED << rcret, lockVars, socket, announced_topics, subscriptions,
                    userSubs, retries, sub_counter, callbacks, envVars >>

\* publish_topic up to its first await: the pubuid is allocated and the
\* message serialized (serde_json::to_string may fail: encoded = FALSE).
CallPublishTopic(t, c, encoded) ==
    /\ MayCall(t)
    /\ calls' = calls + 1
    /\ topic_counter' = new_topic_id(topic_counter)
    /\ call' = [call EXCEPT ![t] =
                  [op |-> "publish_topic", pubuid |-> topic_counter',
                   name |-> c.name, type |-> c.type,
                   properties |-> c.properties]]
    /\ IF encoded
       THEN /\ pc' = [pc EXCEPT ![t] = "send_lock"]
            /\ result' = [result EXCEPT ![t] = "none"]
       ELSE /\ pc' = [pc EXCEPT ![t] = "idle"]
            /\ result' = [result EXCEPT ![t] = "Err"]
    /\ UNCHANGED << rcret, lockVars, socket, registryVars, sub_counter,
                    callbacks, envVars >>

\* publish_topic after send_message returned Ok: the insert and return.
PublishInsert(t) ==
    /\ pc[t] = "pub_insert"
    /\ client_published_topics' =
         Put(client_published_topics, call[t].pubuid,
             PublishedTopic(call[t].name, call[t].pubuid, call[t].type,
                            call[t].properties))
    /\ pc' = [pc EXCEPT ![t] = "idle"]
    /\ result' = [result EXCEPT ![t] = "Ok"]
    /\ UNCHANGED << call, calls, rcret, lockVars, socket, announced_topics,
                    subscriptions, userSubs, retries, counterVars, callbacks,
                    envVars >>

\* unpublish(topic) with a PublishedTopic an earlier publish_topic returned.
CallUnpublish(t, topic) ==
    /\ MayCall(t)
    /\ topic \in Range(client_published_topics)
    /\ calls' = calls + 1
    /\ call' = [call EXCEPT ![t] = [op |-> "unpublish",
                                    pubuid |-> topic.pubuid]]
    /\ result' = [result EXCEPT ![t] = "none"]
    /\ pc' = [pc EXCEPT ![t] = "send_lock"]
    /\ UNCHANGED << rcret, lockVars, socket, registryVars, counterVars,
                    callbacks, envVars >>

\* publish_value(topic, value): the frame is stamped with server_time(),
\* whose panic unwinds the calling task.
CallPublishValue(t, topic) ==
    /\ MayCall(t)
    /\ topic \in Range(client_published_topics)
    /\ calls' = calls + 1
    /\ result' = [result EXCEPT ![t] = "none"]
    /\ IF server_time(time) = None
       THEN /\ call' = [call EXCEPT ![t] = [op |-> "publish_value",
                                            pubuid |-> topic.pubuid,
                                            type |-> topic.type,
                                            timestamp |-> None]]
            /\ pc' = [pc EXCEPT ![t] = "panicked"]
       ELSE /\ call' = [call EXCEPT ![t] =
                          [op |-> "publish_value", pubuid |-> topic.pubuid,
                           type |-> topic.type,
                           timestamp |-> server_time(time)]]
            /\ pc' = [pc EXCEPT ![t] = "send_lock"]
    /\ UNCHANGED << rcret, lockVars, socket, registryVars, counterVars,
                    callbacks, envVars >>

\* subscribe_w_options up to its first await.
CallSubscribe(t, c) ==
    /\ MayCall(t)
    /\ calls' = calls + 1
    /\ sub_counter' = new_sub_id(sub_counter)
    /\ call' = [call EXCEPT ![t] =
                  [op |-> "subscribe", subuid |-> sub_counter',
                   topics |-> c.topics, prefix |-> c.prefix]]
    /\ result' = [result EXCEPT ![t] = "none"]
    /\ pc' = [pc EXCEPT ![t] = "send_lock"]
    /\ UNCHANGED << rcret, lockVars, socket, registryVars, topic_counter,
                    callbacks, envVars >>

\* subscribe_w_options after send_message returned Ok: the Subscription
\* object is created, its InternalSub inserted, and it is returned.
SubscribeInsert(t) ==
    /\ pc[t] = "sub_insert"
    /\ userSubs' = Append(userSubs,
                          [subuid |-> call[t].subuid,
                           topics |-> call[t].topics,
                           prefix |-> call[t].prefix,
                           alive |-> TRUE, held |-> TRUE, queue |-> << >>])
    /\ subscriptions' = Put(subscriptions, call[t].subuid,
                            [data |-> Len(userSubs) + 1])
    /\ pc' = [pc EXCEPT ![t] = "idle"]
    /\ result' = [result EXCEPT ![t] = "Ok"]
    /\ UNCHANGED << call, calls, rcret, lockVars, socket, announced_topics,
                    client_published_topics, retries, counterVars, callbacks,
                    envVars >>

\* unsubscribe(sub): the Subscription is moved into the call.
CallUnsubscribe(t, h) ==
    /\ MayCall(t)
    /\ h \in DOMAIN userSubs
    /\ userSubs[h].alive /\ userSubs[h].held
    /\ calls' = calls + 1
    /\ userSubs' = [userSubs EXCEPT ![h].held = FALSE]
    /\ call' = [call EXCEPT ![t] = [op |-> "unsubscribe", h |-> h,
                                    subuid |-> userSubs[h].subuid]]
    /\ result' = [result EXCEPT ![t] = "none"]
    /\ pc' = [pc EXCEPT ![t] = "send_lock"]
    /\ UNCHANGED << rcret, lockVars, socket, announced_topics,
                    client_published_topics, subscriptions, retries,
                    counterVars, callbacks, envVars >>

\* unsubscribe after send_message returned Ok: the entry is removed and the
\* Subscription dropped on return.
UnsubscribeRemove(t) ==
    /\ pc[t] = "unsub_remove"
    /\ subscriptions' =
         Restrict(subscriptions, DOMAIN subscriptions \ {call[t].subuid})
    /\ userSubs' = [userSubs EXCEPT ![call[t].h] = Dropped(@)]
    /\ pc' = [pc EXCEPT ![t] = "idle"]
    /\ result' = [result EXCEPT ![t] = "Ok"]
    /\ UNCHANGED << call, calls, rcret, lockVars, socket, announced_topics,
                    client_published_topics, retries, counterVars, callbacks,
                    envVars >>

\* The user drops a Subscription without calling unsubscribe.
DropSubscription(h) ==
    /\ h \in DOMAIN userSubs
    /\ userSubs[h].alive /\ userSubs[h].held
    /\ userSubs' = [userSubs EXCEPT ![h] = Dropped(@)]
    /\ UNCHANGED << pc, userVars, rcret, lockVars, socket, announced_topics,
                    client_published_topics, subscriptions, retries,
                    counterVars, callbacks, envVars >>

\* The user takes the next MessageData from a Subscription's receiver.
Receive(h) ==
    /\ h \in DOMAIN userSubs
    /\ userSubs[h].alive /\ userSubs[h].held
    /\ userSubs[h].queue # << >>
    /\ userSubs' = [userSubs EXCEPT ![h].queue = Tail(@)]
    /\ UNCHANGED << pc, userVars, rcret, lockVars, socket, announced_topics,
                    client_published_topics, subscriptions, retries,
                    counterVars, callbacks, envVars >>

\* A long run of publish_topic calls that all return Err (such a call only
\* advances topic_counter), as many as take the counter to its maximum.
ManyFailedPublishes ==
    /\ \A t \in Users : pc[t] = "idle"
    /\ topic_counter < U32_MAX
    /\ topic_counter' = U32_MAX
    /\ UNCHANGED << pc, userVars, rcret, lockVars, socket, registryVars,
                    sub_counter, callbacks, envVars >>

\* A long run of subscribe calls that all return Err (such a call only
\* advances sub_counter), as many as take the counter to its maximum.
ManyFailedSubscribes ==
    /\ \A t \in Users : pc[t] = "idle"
    /\ sub_counter < I32_MAX
    /\ sub_counter' = I32_MAX
    /\ UNCHANGED << pc, userVars, rcret, lockVars, socket, registryVars,
                    topic_counter, callbacks, envVars >>

\* ------------------------------------------------------- specification
Next ==
    \/ \E t \in Tasks : SendLock(t)
    \/ \E t \in Tasks : SendWriteOk(t)
    \/ \E t \in Tasks : SendWriteErr(t)
    \/ \E t \in Tasks : SendWriteClosed(t)
    \/ \E t \in Tasks : ReconnectBegin(t)
    \/ \E t \in Tasks : ReconnectSleep(t)
    \/ \E t \in Tasks : ConnectFail(t)
    \/ \E t \in Tasks : ConnectOk(t)
    \/ \E t \in Tasks : OnOpen(t)
    \/ \E t \in Tasks : ReconnectDone(t)
    \/ UpdateTimeLock
    \/ UpdateTimeDone
    \/ PumpLock
    \/ \E a \in AnnounceChoices : RecvAnnounce(a)
    \/ \E id \in ServerIds : RecvUnAnnounce(id)
    \/ \E id \in ServerIds, type \in ValueTypes : RecvValue(id, type)
    \/ RecvClosed
    \/ RecvPending
    \/ PumpWake
    \/ \E r \in retries : RetryFire(r)
    \/ ServerClose
    \/ \E t \in Users, c \in PubChoices, e \in BOOLEAN :
          CallPublishTopic(t, c, e)
    \/ \E t \in Users : PublishInsert(t)
    \/ \E t \in Users, p \in Range(client_published_topics) :
          CallUnpublish(t, p)
    \/ \E t \in Users, p \in Range(client_published_topics) :
          CallPublishValue(t, p)
    \/ \E t \in Users, c \in SubChoices : CallSubscribe(t, c)
    \/ \E t \in Users : SubscribeInsert(t)
    \/ \E t \in Users, h \in DOMAIN userSubs : CallUnsubscribe(t, h)
    \/ \E t \in Users : UnsubscribeRemove(t)
    \/ \E h \in DOMAIN userSubs : DropSubscription(h)
    \/ \E h \in DOMAIN userSubs : Receive(h)

Spec == Init /\ [][Next]_vars

\* Sessions whose user tasks only publish, for as long as it takes
\* topic_counter to wrap.
InitWrap ==
    /\ Constructed
    /\ time = NewTime(TRUE)
    /\ limits = [calls |-> MaxCalls, rx |-> 0, closes |-> 0,
                 events |-> MaxEvents]

NextWrap ==
    \/ \E t \in Users, c \in PubChoices, e \in BOOLEAN :
          CallPublishTopic(t, c, e)
    \/ \E t \in Users : SendLock(t)
    \/ \E t \in Users : SendWriteOk(t)
    \/ \E t \in Users : SendWriteErr(t)
    \/ \E t \in Users : PublishInsert(t)
    \/ ManyFailedPublishes

SpecWrap == InitWrap /\ [][NextWrap]_vars

\* Sessions in which time passes: the server answers time-sync pings,
\* announces and unannounces the time topic's id and closes transports,
\* user tasks publish values.  The clock reading and the stored offset
\* start anywhere in the u32 range, under either build.
InitTime ==
    /\ Constructed
    /\ time \in { [NewTime(oc) EXCEPT !.client_time = c,
                                      !.server_time_offset = o] :
                     oc \in BOOLEAN, c \in TimeValues, o \in TimeValues }
    /\ limits = [calls |-> MaxCalls, rx |-> MaxTimeRx, closes |-> MaxCloses,
                 events |-> MaxTimeEvents]

NextTime ==
    \/ \E t \in Tasks : SendLock(t)
    \/ \E t \in Tasks : SendWriteOk(t)
    \/ \E t \in Tasks : SendWriteErr(t)
    \/ \E t \in Tasks : SendWriteClosed(t)
    \/ \E t \in Tasks : ReconnectBegin(t)
    \/ \E t \in Tasks : ReconnectSleep(t)
    \/ \E t \in Tasks : ConnectFail(t)
    \/ \E t \in Tasks : ConnectOk(t)
    \/ \E t \in Tasks : OnOpen(t)
    \/ \E t \in Tasks : ReconnectDone(t)
    \/ UpdateTimeLock
    \/ UpdateTimeDone
    \/ PumpLock
    \/ \E a \in TimeAnnounceChoices : RecvAnnounce(a)
    \/ RecvUnAnnounce(-1)
    \/ \E st \in ServerStamps, ct \in ClientStamps : RecvTimeSync(st, ct)
    \/ TimeSyncRetry
    \/ \E v \in TimeValues : Tick(v)
    \/ RecvClosed
    \/ RecvPending
    \/ PumpWake
    \/ ServerClose
    \/ \E t \in Users, c \in PubChoices, e \in BOOLEAN :
          CallPublishTopic(t, c, e)
    \/ \E t \in Users : PublishInsert(t)
    \/ \E t \in Users, p \in Range(client_published_topics) :
          CallPublishValue(t, p)

SpecTime == InitTime /\ [][NextTime]_vars

\* Sessions of one subscriber on a connection that stays up, long enough
\* for the server to fill the subscriber's queue and send one value more.
InitQueue ==
    /\ Constructed
    /\ time = NewTime(TRUE)
    /\ limits = [calls |-> 1, rx |-> MaxQueueRx, closes |-> 0,
                 events |-> MaxQueueEvents]

NextQueue ==
    \/ \E t \in Tasks : SendLock(t)
    \/ \E t \in Tasks : SendWriteOk(t)
    \/ \E t \in Tasks : SendWriteErr(t)
    \/ UpdateTimeLock
    \/ UpdateTimeDone
    \/ PumpLock
    \/ \E a \in AnnounceChoices : RecvAnnounce(a)
    \/ \E id \in ServerIds, type \in ValueTypes : RecvValue(id, type)
    \/ RecvPending
    \/ PumpWake
    \/ \E r \in retries : RetryFire(r)
    \/ \E t \in Users, c \in SubChoices : CallSubscribe(t, c)
    \/ \E t \in Users : SubscribeInsert(t)
    \/ \E h \in DOMAIN userSubs : DropSubscription(h)
    \/ \E h \in DOMAIN userSubs : Receive(h)

SpecQueue == InitQueue /\ [][NextQueue]_vars

\* Sessions that end with the Client dropped: the server sends frames and
\* closes the transport, connect attempts fail or succeed, and the tokio
\* runtime keeps running every task that can take a step.
InitTeardown ==
    /\ Constructed
    /\ time = NewTime(TRUE)
    /\ limits = [calls |-> 0, rx |-> MaxTeardownRx, closes |-> MaxCloses,
                 events |-> MaxTeardownEvents]

NextTeardown ==
    \/ SendLock(Pump)
    \/ SendWriteOk(Pump)
    \/ SendWriteErr(Pump)
    \/ SendWriteClosed(Pump)
    \/ ReconnectBegin(Pump)
    \/ ReconnectSleep(Pump)
    \/ ConnectFail(Pump)
    \/ ConnectOk(Pump)
    \/ OnOpen(Pump)
    \/ ReconnectDone(Pump)
    \/ UpdateTimeLock
    \/ UpdateTimeDone
    \/ PumpLock
    \/ \E a \in AnnounceChoices : RecvAnnounce(a)
    \/ \E id \in ServerIds, type \in ValueTypes : RecvValue(id, type)
    \/ RecvClosed
    \/ RecvPending
    \/ PumpWake
    \/ \E r \in retries : RetryFire(r)
    \/ ServerClose
    \/ DropClient

\* A task that can take a step is eventually polled.  Which frames the
\* server sends and whether a connect attempt succeeds is not the
\* runtime's to decide.
FairTeardown ==
    /\ WF_vars(SendLock(Pump))
    /\ WF_vars(SendWriteOk(Pump) \/ SendWriteErr(Pump)
                 \/ SendWriteClosed(Pump))
    /\ WF_vars(ReconnectBegin(Pump))
    /\ WF_vars(ReconnectSleep(Pump))
    /\ WF_vars(ConnectFail(Pump) \/ ConnectOk(Pump))
    /\ WF_vars(OnOpen(Pump))
    /\ WF_vars(ReconnectDone(Pump))
    /\ WF_vars(UpdateTimeLock)
    /\ WF_vars(UpdateTimeDone)
    /\ WF_vars(PumpLock)
    /\ WF_vars(RecvPending)
    /\ WF_vars(RecvClosed)
    /\ WF_vars(PumpWake)
    /\ WF_vars(\E r \in retries : RetryFire(r))

SpecTeardown == InitTeardown /\ [][NextTeardown]_vars /\ FairTeardown

\* Sessions on a connection that stays up in which the server answers
\* time-sync pings and may unannounce the time topic, the clock starting
\* anywhere in the u32 range, and the tokio runtime keeps running the pump
\* whenever it can take a step.
InitResync ==
    /\ Constructed
    /\ time \in { [NewTime(TRUE) EXCEPT !.client_time = c] :
                     c \in TimeValues }
    /\ limits = [calls |-> 0, rx |-> MaxResyncRx, closes |-> 0,
                 events |-> MaxResyncRx]

NextResync ==
    \/ SendLock(Pump)
    \/ SendWriteOk(Pump)
    \/ SendWriteErr(Pump)
    \/ UpdateTimeLock
    \/ UpdateTimeDone
    \/ PumpLock
    \/ RecvUnAnnounce(-1)
    \/ \E st \in ServerStamps, ct \in ClientStamps : RecvTimeSync(st, ct)
    \/ TimeSyncRetry
    \/ \E v \in TimeValues : Tick(v)
    \/ RecvPending
    \/ PumpWake

FairResync ==
    /\ WF_vars(SendLock(Pump))
    /\ WF_vars(SendWriteOk(Pump) \/ SendWriteErr(Pump))
    /\ WF_vars(UpdateTimeLock)
    /\ WF_vars(UpdateTimeDone)
    /\ WF_vars(PumpLock)
    /\ WF_vars(TimeSyncRetry)
    /\ WF_vars(RecvPending)
    /\ WF_vars(PumpWake)

SpecResync == InitResync /\ [][NextResync]_vars /\ FairResync

\* Sessions on a connection that stays up in which the server announces,
\* re-announces and unannounces topics.
InitAnnounce ==
    /\ Constructed
    /\ time = NewTime(TRUE)
    /\ limits = [calls |-> 0, rx |-> MaxAnnounceRx, closes |-> 0,
                 events |-> MaxAnnounceRx]

NextAnnounce ==
    \/ SendLock(Pump)
    \/ SendWriteOk(Pump)
    \/ SendWriteErr(Pump)
    \/ UpdateTimeLock
    \/ UpdateTimeDone
    \/ PumpLock
    \/ \E a \in AnnounceInputs : RecvAnnounce(a)
    \/ \E id \in ServerIds : RecvUnAnnounce(id)
    \/ RecvPending
    \/ PumpWake

SpecAnnounce == InitAnnounce /\ [][NextAnnounce]_vars

\* Sessions whose user tasks publish and subscribe, concurrently, for as
\* long as it takes either counter to wrap.
InitIds ==
    /\ Constructed
    /\ time = NewTime(TRUE)
    /\ limits = [calls |-> MaxIdCalls, rx |-> 0, closes |-> 0,
                 events |-> MaxIdCalls]

NextIds ==
    \/ \E t \in Users, c \in PubChoices, e \in BOOLEAN :
          CallPublishTopic(t, c, e)
    \/ \E t \in Users, c \in SubChoices : CallSubscribe(t, c)
    \/ \E t \in Users : SendLock(t)
    \/ \E t \in Users : SendWriteOk(t)
    \/ \E t \in Users : SendWriteErr(t)
    \/ \E t \in Users : PublishInsert(t)
    \/ \E t \in Users : SubscribeInsert(t)
    \/ ManyFailedPublishes
    \/ ManyFailedSubscribes

SpecIds == InitIds /\ [][NextIds]_vars

\* Sessions on a connection that stays up in which the server sends
\* malformed frames among announces, unannounces and time-sync replies.
InitFrames ==
    /\ Constructed
    /\ time = NewTime(TRUE)
    /\ limits = [calls |-> MaxFramesCalls, rx |-> MaxFramesRx, closes |-> 0,
                 events |-> MaxFramesCalls + MaxFramesRx]

NextFrames ==
    \/ \E t \in Users : \E ch \in SubChoices : CallSubscribe(t, ch)
    \/ \E t \in Users : SubscribeInsert(t)
    \/ \E t \in Tasks : SendLock(t)
    \/ \E t \in Tasks : SendWriteOk(t)
    \/ \E t \in Tasks : SendWriteErr(t)
    \/ UpdateTimeLock
    \/ UpdateTimeDone
    \/ PumpLock
    \/ \E f \in RejectedFrames \cup AcceptedFrames : RecvFrame(f)
    \/ \E a \in AnnounceChoices : RecvAnnounce(a)
    \/ \E id \in ServerIds : RecvUnAnnounce(id)
    \/ \E r \in retries : RetryFire(r)
    \/ RecvPending
    \/ PumpWake

SpecFrames == InitFrames /\ [][NextFrames]_vars

\* ------------------------------------------------------------- claims
\* Steps the claims speak about.
OnOpenStep(t) == pc[t] = "rc_open" /\ pc'[t] # "rc_open"
OnOpenCompletes(t) == pc[t] = "rc_open" /\ pc'[t] = "rc_cb"
FrameWritten == Len(socket'.wire) = Len(socket.wire) + 1
LastFrame(w) == w[Len(w)]
MsgsOf(f, method) ==
    { i \in 1..Len(f.msgs) : f.msgs[i].method = method }

\* A routing pass (send_value_to_subscriber) for the announced topic.
RoutingPass(topic) ==
    \/ \E id \in ServerIds, type \in ValueTypes :
          /\ RecvValue(id, type)
          /\ id \in DOMAIN announced_topics
          /\ topic = announced_topics[id]
    \/ \E r \in retries :
          /\ RetryFire(r)
          /\ r.id \in DOMAIN announced_topics
          /\ topic = announced_topics[r.id]

AnnouncedTopics == Range(announced_topics)

InSend(t) ==
    pc[t] \in {"send_lock", "send_write", "rc_begin", "rc_sleep",
               "rc_connect", "rc_open", "rc_cb"}

\* C1: after every successful connect made by reconnect, on_open completes
\* and the rehydration frame it writes holds exactly one publish message
\* (name, pubuid, type, properties) per entry of client_published_topics
\* and none for the time topic.
C1_RehydrationPublishesAll ==
    [][\A t \in Tasks : OnOpenStep(t) =>
          /\ OnOpenCompletes(t)
          /\ FrameWritten =>
               LET f == LastFrame(socket'.wire) IN
               /\ { f.msgs[i] : i \in MsgsOf(f, "publish") } =
                    { PublishMsg(p.name, p.pubuid, p.type, p.properties) :
                      p \in Range(client_published_topics) }
               /\ Cardinality(MsgsOf(f, "publish")) =
                    Cardinality(DOMAIN client_published_topics)]_vars

\* C2: during rehydration exactly the subscriptions whose handle has been
\* dropped leave the registry; every subscription whose handle is alive
\* stays and gets exactly one subscribe message in the rehydration frame.
C2_RehydrationKeepsLiveSubs ==
    [][\A t \in Tasks : OnOpenCompletes(t) =>
          /\ DOMAIN subscriptions' =
               { k \in DOMAIN subscriptions :
                   userSubs[subscriptions[k].data].alive }
          /\ FrameWritten =>
               LET f == LastFrame(socket'.wire) IN
               \A k \in DOMAIN subscriptions :
                   userSubs[subscriptions[k].data].alive =>
                     Cardinality({ i \in MsgsOf(f, "subscribe") :
                                     f.msgs[i].subuid = k }) = 1]_vars

\* C3: when a value frame with id >= 0 for an announced topic is routed,
\* every Subscription that is alive, whose queue is not full and whose topic
\* set matches the topic receives exactly one MessageData for it, whatever
\* was received before.
C3_EveryLiveMatchingSubReceives ==
    [][\A id \in ServerIds, type \in ValueTypes :
          (RecvValue(id, type) /\ id \in DOMAIN announced_topics) =>
            \A h \in DOMAIN userSubs :
              ( /\ userSubs[h].alive
                /\ Len(userSubs[h].queue) < ChannelCapacity
                /\ matches_topic([data |-> h], announced_topics[id],
                                 userSubs) )
              => userSubs'[h].queue =
                   Append(userSubs[h].queue,
                          MessageData(announced_topics[id].name, rx + 1, type,
                                      rx + 1))]_vars

\* C4: a routing pass for a value whose topic does not match a
\* subscription's topic set never removes that subscription.
C4_NonMatchingValueKeepsSub ==
    [][\A topic \in AnnouncedTopics : RoutingPass(topic) =>
          \A k \in DOMAIN subscriptions :
            ( /\ is_valid(subscriptions[k], userSubs)
              /\ ~matches_topic(subscriptions[k], topic, userSubs) )
            => k \in DOMAIN subscriptions']_vars

\* C5: after unpublish(topic) returns, the topic's pubuid is absent from
\* client_published_topics.
C5_UnpublishedAbsent ==
    \A t \in Users :
      ( /\ call[t].op = "unpublish"
        /\ pc[t] = "idle"
        /\ result[t] \in {"Ok", "Err"} )
      => call[t].pubuid \notin DOMAIN client_published_topics

\* C6: a send of a user task ends in only two ways: its frame was written
\* to the transport in place (after any number of reconnects), or the write
\* failed with an error that is not a closure.
C6_SendSurvivesClosure ==
    [][\A t \in Users : (InSend(t) /\ ~InSend(t)') =>
          \/ SendWriteOk(t)
          \/ SendWriteErr(t)]_vars

\* C7: the values delivered to one subscription are enqueued in the order
\* the server sent them (values carry their arrival number), also when a
\* value arrived before its announce and was delivered by the retry.
C7_DeliveredInArrivalOrder ==
    \A h \in DOMAIN userSubs :
      \A i, j \in DOMAIN userSubs[h].queue :
        i < j => userSubs[h].queue[i].timestamp
                   < userSubs[h].queue[j].timestamp

PublishedTopicOf(c) == PublishedTopic(c.name, c.pubuid, c.type, c.properties)

\* Task t's publish_topic call returns r in this step.
PublishTopicReturns(t, r) ==
    /\ call'[t].op = "publish_topic"
    /\ pc'[t] = "idle"
    /\ result'[t] = r
    /\ pc[t] # "idle" \/ calls' # calls

\* C8: when publish_topic returns Ok the returned PublishedTopic is in
\* client_published_topics under its pubuid; a call that returns Err never
\* changed the map: the map changes only in the step in which a
\* publish_topic call returns Ok.
C8_PublishedIffOk ==
    [][ /\ \A t \in Users : PublishTopicReturns(t, "Ok") =>
              /\ call'[t].pubuid \in DOMAIN client_published_topics'
              /\ client_published_topics'[call'[t].pubuid] =
                   PublishedTopicOf(call'[t])
        /\ client_published_topics' # client_published_topics =>
              \E t \in Users : PublishTopicReturns(t, "Ok") ]_vars

\* C8 witness: one publish_topic call has returned Ok and its topic is in
\* the map, another has returned Err and its pubuid is not.
C8_Witness ==
    \E t, u \in Users :
      /\ call[t].op = "publish_topic" /\ pc[t] = "idle" /\ result[t] = "Ok"
      /\ call[t].pubuid \in DOMAIN client_published_topics
      /\ call[u].op = "publish_topic" /\ pc[u] = "idle" /\ result[u] = "Err"
      /\ call[u].pubuid \notin DOMAIN client_published_topics

\* C9: publish_topic never inserts under a pubuid that is already the key
\* of a topic in client_published_topics.
C9_InsertNeverOverwrites ==
    [][\A t \in Users : PublishInsert(t) =>
          call[t].pubuid \notin DOMAIN client_published_topics]_vars

\* C10: a routing pass leaves no registry entry whose Subscription has been
\* dropped, enqueues nothing for a dropped Subscription and invokes no
\* callback.
C10_RoutingPrunesDropped ==
    [][\A topic \in AnnouncedTopics : RoutingPass(topic) =>
          /\ \A k \in DOMAIN subscriptions' :
                userSubs[subscriptions'[k].data].alive
          /\ \A h \in DOMAIN userSubs :
                ~userSubs[h].alive => userSubs'[h] = userSubs[h]
          /\ callbacks' = callbacks]_vars

\* C10 witness: the only call made was a subscribe, its Subscription was
\* dropped, the only value received was for a topic it matches, and the
\* routing pass emptied the registry.
C10_Witness ==
    /\ calls = 1 /\ closes = 0 /\ rx = 2 /\ retries = {}
    /\ DOMAIN announced_topics = {-1, 1}
    /\ Len(userSubs) = 1
    /\ ~userSubs[1].alive
    /\ \A t \in Users : call[t].op # "unsubscribe"
    /\ DOMAIN subscriptions = {}

\* C11: in every state after construction, whatever announce and unannounce
\* messages arrived (for any id, -1 included) and however many reconnects
\* happened, announced_topics holds the entry with id -1 and type int.
C11_TimeTopicAlwaysAnnounced ==
    /\ -1 \in DOMAIN announced_topics
    /\ announced_topics[-1].type = "int"

\* Task t's publish_value call computes server_time() in this step.
StampsValue(t) ==
    /\ calls' = calls + 1
    /\ call'[t].op = "publish_value"
    /\ pc[t] = "idle"
    /\ pc'[t] # "idle"

\* C12: for every clock reading and every stored offset, server_time()
\* does not abort and is at least the client_time() it was computed from.
C12_ServerTimeNotBeforeClientTime ==
    [][\A t \in Users : StampsValue(t) =>
          /\ pc'[t] # "panicked"
          /\ call'[t].timestamp # None
          /\ call'[t].timestamp[1] >= client_time(time)]_vars

\* C13: when the offset computation for a time-sync reply fails,
\* start_time is re-anchored and the one retry with the same reply is
\* reached (the pump does not wait for a lock it holds itself), succeeds
\* and stores the offset it computed.
C13_RetrySucceeds ==
    /\ [](time.pending # None =>
            ~(pc[Pump] = "send_lock" /\ socketLock = Pump))
    /\ [][TimeSyncRetry =>
            LET h == handle_new_timestamp(time,
                         time.pending[1].server_timestamp,
                         time.pending[1].client_timestamp)
            IN  /\ h.ok
                /\ h.offset # None
                /\ time'.server_time_offset = h.offset[1]]_vars

\* The messages of the one frame a publish_topic call c is to write.
PublishTopicMsgs(c) ==
    IF is_some(c.properties)
    THEN << PublishMsg(c.name, c.pubuid, c.type, c.properties),
            SetPropertiesMsg(c.name, c.properties[1]) >>
    ELSE << PublishMsg(c.name, c.pubuid, c.type, c.properties) >>

\* A text frame that carries publish or setproperties messages is
\* [publish] for a topic without properties or [publish, setproperties]
\* for one with properties, both messages naming the same topic.
WellFormedPublishFrame(f) ==
    \/ f.kind # "text"
    \/ MsgsOf(f, "publish") \cup MsgsOf(f, "setproperties") = {}
    \/ /\ Len(f.msgs) = 1
       /\ f.msgs[1].method = "publish"
       /\ f.msgs[1].properties = None
    \/ /\ Len(f.msgs) = 2
       /\ f.msgs[1].method = "publish"
       /\ f.msgs[2].method = "setproperties"
       /\ f.msgs[1].properties = Some(f.msgs[2].update)
       /\ f.msgs[1].name = f.msgs[2].name

\* C14: a publish_topic call writes one text frame: [publish,
\* setproperties] in that order and for the same name when properties were
\* given, [publish] when not; it is written in one step, so nothing comes
\* between the two messages, and the call returns Ok only after that step.
C14_PublishTopicOneFrame ==
    /\ [](\A i \in DOMAIN socket.wire : WellFormedPublishFrame(socket.wire[i]))
    /\ [][\A t \in Users :
            /\ (call[t].op = "publish_topic" /\ SendWriteOk(t)) =>
                  /\ socket'.wire =
                       Append(socket.wire,
                              TextFrame(PublishTopicMsgs(call[t])))
                  /\ pc'[t] = "pub_insert"
            /\ (call[t].op = "publish_topic" /\ pc'[t] = "pub_insert"
                  /\ pc[t] # "pub_insert") => SendWriteOk(t)
            /\ (PublishTopicReturns(t, "Ok") /\ pc[t] # "idle") =>
                  pc[t] = "pub_insert"]_vars

\* C14 witness: a publish_topic call with properties has returned Ok and
\* its two-message frame is the last one on the transport.
C14_Witness ==
    \E t \in Users :
      /\ call[t].op = "publish_topic" /\ pc[t] = "idle" /\ result[t] = "Ok"
      /\ is_some(call[t].properties)
      /\ socket.wire # << >>
      /\ LastFrame(socket.wire) = TextFrame(PublishTopicMsgs(call[t]))
      /\ Len(LastFrame(socket.wire).msgs) = 2

\* C15: every execution of reconnect goes on_disconnect, rounds of (sleep,
\* connect attempt), and on the first successful attempt: transport
\* replaced, on_open runs to its end and sends the rehydration frame,
\* on_reconnect once.  So a task never enters on_open holding the
\* announced_topics guard on_open waits for, every on_open ends with the
\* frame written, and on_reconnect is only invoked after on_disconnect and
\* after on_open.
C15_ReconnectEventOrder ==
    /\ [](\A t \in Tasks : pc[t] = "rc_open" => announcedLock # t)
    /\ [](callbacks.on_reconnect <= callbacks.on_disconnect)
    /\ [][ /\ \A t \in Tasks : OnOpenStep(t) =>
                 pc'[t] = "rc_cb" /\ FrameWritten
           /\ callbacks'.on_reconnect # callbacks.on_reconnect =>
                 \E t \in Tasks : pc[t] = "rc_cb" /\ pc'[t] = rcret[t] ]_vars

\* C16: the first frame written to a transport the client has connected is
\* the rehydration frame on_open writes, whichever task reconnected.
C16_RehydrationFrameFirst ==
    [][(socket.wire = << >> /\ socket'.wire # << >>) =>
          \E t \in Tasks : OnOpen(t)]_vars

\* A MessageData of the value stamped ts is in some consumer queue.
Delivered(ts) ==
    \E h \in DOMAIN userSubs :
      \E i \in DOMAIN userSubs[h].queue : userSubs[h].queue[i].timestamp = ts

C18_FullQueueDropsSubscription ==
    /\ [](\A h \in DOMAIN userSubs :
            Len(userSubs[h].queue) <= ChannelCapacity)
    /\ [][\A topic \in AnnouncedTopics : RoutingPass(topic) =>
            \A k \in DOMAIN subscriptions :
              LET h == subscriptions[k].data IN
              ( /\ is_valid(subscriptions[k], userSubs)
                /\ matches_topic(subscriptions[k], topic, userSubs)
                /\ Len(userSubs[h].queue) = ChannelCapacity )
              => /\ userSubs'[h].queue = userSubs[h].queue
                 /\ k \notin DOMAIN subscriptions'
                 /\ socket' = socket
                 /\ pc' = pc]_vars

\* C18 witness: a subscription that is still held, with a full queue, is
\* no longer registered after the fourth frame: the server announced its
\* topic and sent three values for it.
C18_Witness ==
    /\ rx = MaxQueueRx
    /\ retries = {}
    /\ DOMAIN announced_topics = {-1, 1}
    /\ \E h \in DOMAIN userSubs :
         /\ userSubs[h].alive /\ userSubs[h].held
         /\ Len(userSubs[h].queue) = ChannelCapacity
         /\ userSubs[h].subuid \notin DOMAIN subscriptions

ClientDropped == \A u \in Users : pc[u] = "dropped"
PumpTerminated == pc[Pump] \in {"exited", "panicked"}

\* C19: once every external Client handle has been dropped the receive
\* pump eventually terminates, wherever it is at that moment.
C19_PumpTerminatesAfterDrop == ClientDropped ~> PumpTerminated

\* C20: the pump holds the socket mutex only for a receive probe: not
\* during its 7 ms sleep nor inside reconnect, not while handle_message
\* processes a frame, and it never waits for the mutex while another task
\* holds it.
C20_PumpHoldsSocketOnlyToProbe ==
    /\ [](socketLock = Pump =>
            pc[Pump] \notin {"sleep", "rc_begin", "rc_sleep", "rc_connect",
                             "rc_open", "rc_cb"})
    /\ [](pc[Pump] \in {"lock", "send_lock"} => socketLock \in {Free, Pump})
    /\ [][rx' # rx => socketLock # Pump]_vars

\* C21: when the offset computation for a time-sync reply fails, the
\* handling of that frame eventually completes: the retry has run and the
\* pump is back at polling the transport.
C21_ResyncCompletes ==
    (time.pending # None) ~> (time.pending = None /\ pc[Pump] = "drain")

\* Task t waits for the announced_topics mutex / for the socket mutex.
WaitsForAnnounced(t) == pc[t] = "rc_open" /\ announcedLock \notin {Free, t}
WaitsForSocket(t) ==
    pc[t] \in {"send_lock", "lock"} /\ socketLock \notin {Free, t}

\* C22: the pump and a user task never wait for each other's lock: the
\* pump holding announced_topics (in update_time) and waiting for the
\* socket mutex while a user task holds the socket mutex (in send_message)
\* and waits in on_open for announced_topics.
C22_NoLockCycle ==
    \A u \in Users :
      ~( /\ announcedLock = Pump /\ WaitsForSocket(Pump)
         /\ socketLock = u /\ WaitsForAnnounced(u) )

\* The subscription a subscribe call c is about to register matches topic.
CallMatches(c, topic) ==
    matches_topic([data |-> 1], topic,
                  << [topics |-> c.topics, prefix |-> c.prefix] >>)

\* C23: a value for an announced matching topic that is routed after the
\* subscribe frame of a call was written and before the call has inserted
\* its subscription is not lost to that subscription: the routing step
\* keeps it for a later delivery (the subscription has no queue yet).
C23_ValueAfterSubscribeFrameDelivered ==
    [][\A t \in Users, id \in ServerIds, type \in ValueTypes :
          ( /\ pc[t] = "sub_insert"
            /\ RecvValue(id, type)
            /\ id \in DOMAIN announced_topics
            /\ CallMatches(call[t], announced_topics[id]) )
          => \E r \in retries' : r.timestamp = rx']_vars

\* C24: an announce for an id already in announced_topics changes only
\* that entry's pubuid, and only when the message carries one; an announce
\* for a new id inserts an entry with the message's id, name, type and
\* pubuid; no other entry changes; on_announce is invoked exactly once,
\* with the entry as stored, and no other callback is.
C24_AnnounceUpdatesOnlyPubuid ==
    [][\A a \in AnnounceInputs : RecvAnnounce(a) =>
          /\ DOMAIN announced_topics' = DOMAIN announced_topics \cup {a.id}
          /\ \A k \in DOMAIN announced_topics \ {a.id} :
                announced_topics'[k] = announced_topics[k]
          /\ IF a.id \in DOMAIN announced_topics
             THEN announced_topics'[a.id] =
                    [announced_topics[a.id] EXCEPT
                       !.pubuid = IF a.pubuid # None THEN a.pubuid ELSE @]
             ELSE /\ announced_topics'[a.id].id = a.id
                  /\ announced_topics'[a.id].name = a.name
                  /\ announced_topics'[a.id].type = a.type
                  /\ announced_topics'[a.id].pubuid = a.pubuid
          /\ callbacks' = [callbacks EXCEPT
                             !.on_announce = @ + 1,
                             !.announced = Some(announced_topics'[a.id])]]_vars

\* C24 witness: id 1 was announced as "a" of type int and announced again
\* under another name and type with a pubuid: the entry kept its name and
\* type, took the pubuid, and on_announce ran twice, last with that entry.
C24_Witness ==
    /\ 1 \in DOMAIN announced_topics
    /\ announced_topics[1].name = NameA
    /\ announced_topics[1].type = "int"
    /\ announced_topics[1].pubuid = Some(7)
    /\ callbacks.on_announce = 2
    /\ callbacks.announced = Some(announced_topics[1])

InProgress(t, op) == pc[t] # "idle" /\ call[t].op = op

\* C25: new_topic_id and new_sub_id return the counter plus 1, or 1 when
\* the counter is at its maximum, never 0 or a negative value; the counter
\* keeps the id returned; two calls in progress at the same time never
\* hold the same id.
C25_IdsPositiveAndDistinct ==
    /\ [](\A t, u \in Users :
            t # u =>
              /\ (InProgress(t, "publish_topic")
                    /\ InProgress(u, "publish_topic"))
                   => call[t].pubuid # call[u].pubuid
              /\ (InProgress(t, "subscribe") /\ InProgress(u, "subscribe"))
                   => call[t].subuid # call[u].subuid)
    /\ [][\A t \in Users :
            /\ (pc[t] = "idle" /\ pc'[t] # "idle"
                  /\ call'[t].op = "publish_topic") =>
                 /\ call'[t].pubuid =
                      IF topic_counter = U32_MAX THEN 1
                      ELSE topic_counter + 1
                 /\ call'[t].pubuid > 0
                 /\ topic_counter' = call'[t].pubuid
            /\ (pc[t] = "idle" /\ pc'[t] # "idle"
                  /\ call'[t].op = "subscribe") =>
                 /\ call'[t].subuid =
                      IF sub_counter = I32_MAX THEN 1 ELSE sub_counter + 1
                 /\ call'[t].subuid > 0
                 /\ sub_counter' = call'[t].subuid]_vars

\* C25 witness: a first publish_topic got id 1, the counter then reached
\* its maximum, and two publish_topic calls now in progress hold the id 1
\* the counter wrapped to and the id 2 that follows it.
C25_Witness ==
    \E t, u \in Users :
      /\ 1 \in DOMAIN client_published_topics
      /\ InProgress(t, "publish_topic") /\ call[t].pubuid = 1
      /\ InProgress(u, "publish_topic") /\ call[u].pubuid = 2
      /\ topic_counter = 2

\* C26: a frame that handle_message rejects (text that is no JSON array of
\* messages, binary that is no MsgPack array, an array of a length other
\* than 4, an id below -1, an id >= 0 with an invalid type tag) changes
\* none of announced_topics, subscriptions, client_published_topics, the
\* clock offset and the consumer queues, invokes no callback and spawns
\* nothing, and the pump stays in its drain loop, holding what it held.
C26_RejectedFrameIsDropped ==
    [][\A f \in RejectedFrames :
         RecvFrame(f) =>
           /\ UNCHANGED << announced_topics, subscriptions,
                           client_published_topics, userSubs, retries,
                           time, callbacks, socket, lockVars >>
           /\ pc'[Pump] = "drain"
           /\ pc[Pump] = "drain"]_vars

\* Two frames were rejected in a session that has an announced topic and a
\* registered subscription, and the pump is in its drain loop.
C26_Witness ==
    /\ dropped = 2
    /\ 1 \in DOMAIN announced_topics
    /\ callbacks.on_announce = 1
    /\ subscriptions # << >>
    /\ pc[Pump] = "drain"

====
